---- MODULE Spec2Model ----
(***************************************************************************)
(* A model of moonlit's text buffer core (src/document.rs): the Document   *)
(* that owns a rope, a row/column Cursor, a ring of recorded Edits and an  *)
(* optional parser with its retained tree.  One action per public          *)
(* operation of Document.  The rope (ropey) and the ring (ringbuffer) are  *)
(* libraries; their operations are modelled by what the library documents: *)
(* a rope is the sequence of its characters, and a rope call with an       *)
(* out-of-range argument panics.                                           *)
(***************************************************************************)
EXTENDS Integers, Sequences, FiniteSets, TLC

VARIABLES
    rope,        \* Document.rope: the text, a sequence of characters
    cursor,      \* Document.cursor: [x |-> column, y |-> row]
    edits,       \* Document.edits: the ring's content, oldest first
    capacity,    \* the capacity the ring was allocated with
    ctor,        \* the constructor that built the document
    parser,      \* Document.parser is Some
    highlighter, \* Document.highlighter is Some
    tree,        \* Document.tree
    op,          \* the operation executed last ("new" after construction)
    arg,         \* the text given to the operation executed last
    result,      \* how it ended: "done", "rejected" (insert_text's early return), "panic"
    parse_calls, \* calls of the parser oracle made by the operation executed last
    old_tree,    \* the previous tree handed to the oracle by that call
    oracle,      \* that call: the rope its closure answers from, the tree returned
    pushed,      \* history: every Edit pushed to the ring since construction
    typed,       \* history: the characters given to insert_char, while nothing else ran
    lookup,      \* the last call of reparse's text callback: offset and text returned
    trip,        \* history: the insert_text of SpecText, the text before it and the
                 \* remove_char calls still to come
    rerender,    \* Editor.rerender
    pc,          \* where main is: "configure", "first_render", "events", "render",
                 \* "quit", "crashed"
    stale        \* history: text or cursor changed since the last completed redraw

\* the editor around the document
editor == <<rerender, pc, stale>>

\* what the operations of Document do not touch
aside == <<lookup, trip, rerender, pc, stale>>

vars == <<rope, cursor, edits, capacity, ctor, parser, highlighter, tree,
          op, arg, result, parse_calls, old_tree, oracle, pushed, typed, lookup,
          trip,
          rerender, pc, stale>>

--------------------------------------------------------------------------
(* Bounds of the model *)

\* longest text of a document, in characters
MaxLen == 2
\* longest text a document is constructed from
MaxInit == 2
\* longest text given to one insert_text
MaxText == 2
\* edits pushed over one run of Spec and of SpecEditor
MaxPushes == 2
\* edits pushed beyond the ring's capacity over one run of SpecHistory
HistExtra == 2
\* the trees the parser oracle can return
MaxTrees == 2
\* offsets past the end of the text given to the text callback in SpecLookup
LookupPast == 4

NL == "\n"
\* one ordinary character and the line terminator
Alphabet == {"a", NL}

\* the sequences over S of length n, and of length at most n
SeqN(S, n) == [1..n -> S]
SeqUpTo(S, n) == UNION {SeqN(S, k) : k \in 0..n}

--------------------------------------------------------------------------
(* The rope *)

len_chars(r) == Len(r)

\* the positions (1-based) of the line terminators of r
Breaks(r) == {i \in 1..Len(r) : r[i] = NL}

len_lines(r) == Cardinality(Breaks(r)) + 1

\* Rope::line_to_char panics when line_idx > len_lines()
line_to_char_panics(r, line_idx) == line_idx > len_lines(r)

\* the index of the first character of line line_idx; one past the last line
\* is the length of the text
line_to_char(r, line_idx) ==
    IF line_idx = 0 THEN 0
    ELSE IF line_idx >= len_lines(r) THEN Len(r)
    ELSE CHOOSE i \in Breaks(r) : Cardinality({j \in Breaks(r) : j <= i}) = line_idx

\* rope.line(line_idx).len_chars(): the characters of the line, its
\* terminator included (the caller guarantees line_idx < len_lines)
line_len_chars(r, line_idx) ==
    line_to_char(r, line_idx + 1) - line_to_char(r, line_idx)

\* Rope::insert and Rope::insert_char panic when char_idx > len_chars()
rope_insert_panics(r, char_idx) == char_idx > len_chars(r)

rope_insert(r, char_idx, text) ==
    SubSeq(r, 1, char_idx) \o text \o SubSeq(r, char_idx + 1, Len(r))

\* Rope::remove panics when the range ends after len_chars()
rope_remove_panics(r, start, end) == end > len_chars(r) \/ start > end

\* removes the characters start .. end-1
rope_remove(r, start, end) ==
    SubSeq(r, 1, start) \o SubSeq(r, end + 1, Len(r))

--------------------------------------------------------------------------
(* Cursor *)

Cursor_default == [x |-> 0, y |-> 0]

\* a newline that forgets to reset the column
Cursor_newline_keeps_x(c) == [x |-> c.x, y |-> c.y + 1]

Cursor_newline(c) == [x |-> 0, y |-> c.y + 1]

\* a move_left that stops one column early
Cursor_move_left_from_2(c) == IF c.x > 1 THEN [c EXCEPT !.x = c.x - 1] ELSE c

Cursor_move_left(c) == IF c.x > 0 THEN [c EXCEPT !.x = c.x - 1] ELSE c

Cursor_move_right(c) == [c EXCEPT !.x = c.x + 1]

\* usize::MAX, what 0 - 1 wraps to where overflow checks are off.  It is
\* 2^64 - 1 on a 64-bit target; TLC's integers end at 2^31 - 1, and that
\* value stands for it: the operations only compare a wrapped y with a line
\* count or with 0, and subtract one from it.
usize_MAX == 2147483647

\* `self.y -= 1` at y = 0: the subtraction overflows
Cursor_move_up_overflows(c) == c.y = 0

\* Cursor::move_up where it returns: at y = 0 that is a build without
\* overflow checks, and y wraps
Cursor_move_up(c) == [x |-> 0, y |-> IF c.y = 0 THEN usize_MAX ELSE c.y - 1]

Cursor_move_down(c) == [x |-> 0, y |-> c.y + 1]

\* the cursor after one inserted character (insert_char and insert_text)
advance(c, ch) == IF ch = NL THEN Cursor_newline(c) ELSE [c EXCEPT !.x = c.x + 1]

--------------------------------------------------------------------------
(* Edit history *)

Insert(char_idx, ch, point) ==
    [kind |-> "Insert", char_idx |-> char_idx, ch |-> ch, point |-> point]

\* a push that drops the new element once the ring is full
ring_push_keeps_oldest(ring, cap, e) ==
    IF Len(ring) < cap THEN Append(ring, e) ELSE ring

\* AllocRingBuffer::push: once the ring is full the oldest element is overwritten
ring_push(ring, cap, e) ==
    IF Len(ring) < cap THEN Append(ring, e) ELSE Append(Tail(ring), e)

CapacityDefault == 16 * 16
CapacityFromReader == 16 * 16
CapacityFromStr == 32 * 32

--------------------------------------------------------------------------
(* Parser and tree *)

\* Document.tree.  What a tree holds is the parser's affair and no
\* operation of the document or the editor's loop reads it: a tree is one
\* of a few values told apart by `id` alone
TreeIds == 1..MaxTrees

NoTree == [some |-> FALSE, id |-> 0]

\* Rope::len_bytes: every character of the alphabet is one byte of UTF-8
len_bytes(r) == Len(r)

\* Rope::chunk_at_byte(byte_idx).0, for byte_idx <= len_bytes: the whole
\* chunk that holds the byte, from the chunk's first byte.  A text this
\* short is one chunk, so the chunk is the whole text.
chunk_at_byte(r, byte_idx) == r

\* the closure reparse hands to Parser::parse_with
text_lookup(r, u) == IF u > len_bytes(r) THEN <<>> ELSE chunk_at_byte(r, u)

NoLookup == [called |-> FALSE, u |-> 0, out |-> <<>>]

NoTrip == [started |-> FALSE, valid |-> FALSE, before |-> <<>>, left |-> 0]

\* the results Parser::parse_with can give when handed the closure over
\* the rope r and the previous tree.  The parser has a language and neither
\* timeout nor cancellation flag, so it returns a tree.  Which tree is left
\* open: what it asks the closure for, and which nodes of the previous tree
\* (never edited with Tree::edit) it takes over unread, is the library's.
parse_with(r, previous) == {[some |-> TRUE, id |-> i] : i \in TreeIds}

NoOracle == [rope |-> <<>>, result |-> NoTree]

\* a reparse that starts from scratch: no previous tree for the oracle
reparse_without_hint(r) ==
    IF parser
    THEN /\ \E t \in parse_with(r, NoTree) :
              /\ tree' = t
              /\ oracle' = [rope |-> r, result |-> t]
         /\ parse_calls' = 1
         /\ old_tree' = NoTree
    ELSE /\ tree' = tree
         /\ oracle' = NoOracle
         /\ parse_calls' = 0
         /\ old_tree' = NoTree

\* Document::reparse with the rope as r: the oracle is called only when a
\* parser is configured, with the closure over the rope and the retained
\* tree, and its result replaces that tree
reparse(r) ==
    IF parser
    THEN /\ \E t \in parse_with(r, tree) :
              /\ tree' = t
              /\ oracle' = [rope |-> r, result |-> t]
         /\ parse_calls' = 1
         /\ old_tree' = tree
    ELSE /\ tree' = tree
         /\ oracle' = NoOracle
         /\ parse_calls' = 0
         /\ old_tree' = NoTree

no_reparse ==
    tree' = tree /\ oracle' = NoOracle /\ parse_calls' = 0 /\ old_tree' = NoTree

Untyped == [on |-> FALSE, s |-> <<>>]

--------------------------------------------------------------------------
(* Construction *)

new(name, text, cap) ==
    /\ ctor = name
    /\ rope = text
    /\ cursor = Cursor_default
    /\ edits = <<>>
    /\ capacity = cap
    /\ parser = FALSE
    /\ highlighter = FALSE
    /\ tree = NoTree
    /\ op = "new"
    /\ arg = <<>>
    /\ result = "done"
    /\ parse_calls = 0
    /\ old_tree = NoTree
    /\ oracle = NoOracle
    /\ pushed = <<>>
    /\ typed = [on |-> text = <<>>, s |-> <<>>]
    /\ lookup = NoLookup
    /\ trip = NoTrip
    /\ rerender = TRUE
    /\ pc = "configure"
    /\ stale = TRUE

default == new("default", <<>>, CapacityDefault)

from_str(s) == new("from_str", s, CapacityFromStr)

from_reader(s) == new("from_reader", s, CapacityFromReader)

Init ==
    \/ default
    \/ \E s \in SeqUpTo(Alphabet, MaxInit) : from_str(s)
    \/ \E s \in SeqUpTo(Alphabet, MaxInit) : from_reader(s)

--------------------------------------------------------------------------
(* Operations *)

running == result # "panic"

\* the operation panicked: the process ends with the state as it was
panic(name, text) ==
    /\ op' = name
    /\ arg' = text
    /\ result' = "panic"
    /\ typed' = Untyped
    /\ no_reparse
    /\ UNCHANGED <<capacity, ctor, parser, highlighter>>

\* Document::insert_char, also reached through Document::newline
insert_char_as(name, ch) ==
    /\ running
    /\ IF line_to_char_panics(rope, cursor.y)
       THEN panic(name, <<ch>>) /\ UNCHANGED <<rope, cursor, edits, pushed>>
       ELSE LET char_idx == line_to_char(rope, cursor.y) + cursor.x IN
            /\ cursor' = advance(cursor, ch)
            /\ IF rope_insert_panics(rope, char_idx)
               THEN panic(name, <<ch>>) /\ UNCHANGED <<rope, edits, pushed>>
               ELSE /\ rope' = rope_insert(rope, char_idx, <<ch>>)
                    /\ reparse(rope')
                    /\ op' = name
                    /\ arg' = <<ch>>
                    /\ result' = "done"
                    /\ typed' = IF typed.on THEN [typed EXCEPT !.s = Append(typed.s, ch)]
                                ELSE Untyped
                    /\ UNCHANGED <<edits, capacity, ctor, parser, highlighter, pushed>>

insert_char(ch) == insert_char_as("insert_char", ch)

newline == insert_char_as("newline", NL)

\* the frame of an operation that completes without touching the history
done(name, text) ==
    /\ op' = name
    /\ arg' = text
    /\ result' = "done"
    /\ typed' = Untyped
    /\ UNCHANGED <<edits, capacity, ctor, pushed>>

\* a guard that is off by one
insert_text_rejects_off_by_one(r, char_idx) == char_idx > len_chars(r) + 1

\* the guard at the head of insert_text: the early return
insert_text_rejects(r, char_idx) == char_idx > len_chars(r)

\* the loop of insert_text over the first n characters of text: the ring
\* after the pushes, each edit carrying the index computed before the loop
\* and the cursor as it is when its character is reached
RECURSIVE cursor_after(_, _, _)
cursor_after(c, text, n) ==
    IF n = 0 THEN c ELSE advance(cursor_after(c, text, n - 1), text[n])

\* an edit pushed after its character has advanced the cursor
insert_text_edit_after_advance(c, char_idx, text, i) ==
    Insert(char_idx, text[i], cursor_after(c, text, i))

insert_text_edit(c, char_idx, text, i) ==
    Insert(char_idx, text[i], cursor_after(c, text, i - 1))

RECURSIVE push_all(_, _, _, _, _, _)
push_all(ring, cap, c, char_idx, text, n) ==
    IF n = 0 THEN ring
    ELSE ring_push(push_all(ring, cap, c, char_idx, text, n - 1), cap,
                   insert_text_edit(c, char_idx, text, n))

insert_text(text) ==
    /\ running
    /\ IF line_to_char_panics(rope, cursor.y)
       THEN panic("insert_text", text) /\ UNCHANGED <<rope, cursor, edits, pushed>>
       ELSE LET char_idx == line_to_char(rope, cursor.y) + cursor.x IN
            IF insert_text_rejects(rope, char_idx)
            THEN /\ op' = "insert_text"
                 /\ arg' = text
                 /\ result' = "rejected"
                 /\ typed' = Untyped
                 /\ no_reparse
                 /\ UNCHANGED <<rope, cursor, edits, capacity, ctor, parser,
                                highlighter, pushed>>
            ELSE /\ edits' = push_all(edits, capacity, cursor, char_idx, text, Len(text))
                 /\ pushed' = pushed \o
                        [i \in 1..Len(text) |-> insert_text_edit(cursor, char_idx, text, i)]
                 /\ cursor' = cursor_after(cursor, text, Len(text))
                 /\ IF rope_insert_panics(rope, char_idx)
                    THEN panic("insert_text", text) /\ UNCHANGED rope
                    ELSE /\ rope' = rope_insert(rope, char_idx, text)
                         /\ reparse(rope')
                         /\ op' = "insert_text"
                         /\ arg' = text
                         /\ result' = "done"
                         /\ typed' = Untyped
                         /\ UNCHANGED <<capacity, ctor, parser, highlighter>>

\* the guard of remove_char: there is a character before the cursor
remove_char_removes(char_idx) == char_idx > 0

remove_char ==
    /\ running
    /\ IF line_to_char_panics(rope, cursor.y)
       THEN panic("remove_char", <<>>) /\ UNCHANGED <<rope, cursor, edits, pushed>>
       ELSE LET char_idx == line_to_char(rope, cursor.y) + cursor.x IN
            IF remove_char_removes(char_idx)
            THEN IF rope_remove_panics(rope, char_idx - 1, char_idx)
                 THEN panic("remove_char", <<>>) /\ UNCHANGED <<rope, cursor, edits, pushed>>
                 ELSE /\ rope' = rope_remove(rope, char_idx - 1, char_idx)
                      /\ cursor' = Cursor_move_left(cursor)
                      /\ reparse(rope')
                      /\ done("remove_char", <<>>)
                      /\ UNCHANGED <<parser, highlighter>>
            ELSE /\ reparse(rope)
                 /\ done("remove_char", <<>>)
                 /\ UNCHANGED <<rope, cursor, parser, highlighter>>

\* a movement that reparses, as the edits do
moved_with_reparse(name) ==
    /\ done(name, <<>>)
    /\ reparse(rope)
    /\ UNCHANGED <<rope, parser, highlighter>>

\* the frame of a cursor movement
moved(name) ==
    /\ done(name, <<>>)
    /\ no_reparse
    /\ UNCHANGED <<rope, parser, highlighter>>

move_cursor_down ==
    /\ running
    /\ cursor' = IF len_lines(rope) > cursor.y THEN Cursor_move_down(cursor) ELSE cursor
    /\ moved("move_cursor_down")

\* a move_cursor_up without its guard
move_up_unguarded(c) == TRUE

\* the guard of move_cursor_up
move_up_allowed(c) == c.y > 0

\* Cursor::move_up is called behind the guard; were it called at y = 0, a
\* build with overflow checks panics and a build without them wraps y
move_cursor_up ==
    /\ running
    /\ IF move_up_allowed(cursor)
       THEN \/ /\ Cursor_move_up_overflows(cursor)
               /\ panic("move_cursor_up", <<>>)
               /\ UNCHANGED <<rope, cursor, edits, pushed>>
            \/ /\ cursor' = Cursor_move_up(cursor)
               /\ moved("move_cursor_up")
       ELSE /\ cursor' = cursor
            /\ moved("move_cursor_up")

move_cursor_left ==
    /\ running
    /\ cursor' = IF cursor.x > 0 THEN Cursor_move_left(cursor)
                 ELSE IF cursor.y > 0 THEN [x |-> 0, y |-> cursor.y - 1]
                 ELSE cursor
    /\ moved("move_cursor_left")

move_cursor_right ==
    /\ running
    /\ cursor' = IF cursor.y >= len_lines(rope) THEN cursor
                 ELSE IF cursor.x < line_len_chars(rope, cursor.y)
                      THEN Cursor_move_right(cursor)
                      ELSE cursor
    /\ moved("move_cursor_right")

\* sets the parser and the highlighter, then parses the whole text
configure_parser ==
    /\ running
    /\ parser' = TRUE
    /\ highlighter' = TRUE
    /\ \E t \in parse_with(rope, tree) :
         /\ tree' = t
         /\ oracle' = [rope |-> rope, result |-> t]
    /\ parse_calls' = 1
    /\ old_tree' = tree
    /\ done("configure_parser", <<>>)
    /\ UNCHANGED <<rope, cursor>>

Texts == SeqUpTo(Alphabet, MaxText)

\* the step stays within the bounds of the model: the text it leaves is no
\* longer than MaxLen and no more than MaxPushes edits have been pushed
bounded == Len(rope') <= MaxLen /\ Len(pushed') <= MaxPushes

Next ==
    \/ \E ch \in Alphabet : insert_char(ch) /\ bounded /\ UNCHANGED aside
    \/ newline /\ bounded /\ UNCHANGED aside
    \/ \E text \in Texts : insert_text(text) /\ bounded /\ UNCHANGED aside
    \/ remove_char /\ UNCHANGED aside
    \/ move_cursor_down /\ UNCHANGED aside
    \/ move_cursor_up /\ UNCHANGED aside
    \/ move_cursor_left /\ UNCHANGED aside
    \/ move_cursor_right /\ UNCHANGED aside
    \/ configure_parser /\ UNCHANGED aside

Spec == Init /\ [][Next]_vars

--------------------------------------------------------------------------
(* The edit history on its own: a document constructed empty into which    *)
(* one character at a time is inserted at the end, past the ring's         *)
(* capacity.  Every edit differs from the others by its index and point.   *)

InitHistory ==
    \/ default
    \/ from_str(<<>>)
    \/ from_reader(<<>>)

NextHistory ==
    /\ Len(pushed) < capacity + HistExtra
    /\ insert_text(<<"a">>)
    /\ UNCHANGED aside

SpecHistory == InitHistory /\ [][NextHistory]_vars

--------------------------------------------------------------------------
(* The text callback on its own: the parser oracle calls it with byte      *)
(* offsets of its choosing, up to and past the end of the text.            *)

document == <<rope, cursor, edits, capacity, ctor, parser, highlighter, tree,
              op, arg, result, parse_calls, old_tree, oracle, pushed, typed>>

call_text_lookup(u) ==
    /\ lookup' = [called |-> TRUE, u |-> u, out |-> text_lookup(rope, u)]
    /\ UNCHANGED document
    /\ UNCHANGED <<trip, editor>>

NextLookup == \E u \in 0..(len_bytes(rope) + LookupPast) : call_text_lookup(u)

SpecLookup == Init /\ [][NextLookup]_vars

(* One insert_text on its own: the cursor is moved somewhere, a text is     *)
(* inserted there, and remove_char is called once per character of it.     *)

\* the characters of line l, its terminator not counted
LineLength(r, l) ==
    IF l + 1 < len_lines(r) THEN line_len_chars(r, l) - 1 ELSE line_len_chars(r, l)

\* the cursor is on a line of the text, at or before the end of the line
valid_position(r, c) == c.y < len_lines(r) /\ c.x <= LineLength(r, c.y)

NextText ==
    \/ ~trip.started /\ move_cursor_down /\ UNCHANGED aside
    \/ ~trip.started /\ move_cursor_up /\ UNCHANGED aside
    \/ ~trip.started /\ move_cursor_left /\ UNCHANGED aside
    \/ ~trip.started /\ move_cursor_right /\ UNCHANGED aside
    \/ \E text \in Texts :
        /\ ~trip.started
        /\ insert_text(text)
        /\ trip' = [started |-> TRUE, valid |-> valid_position(rope, cursor),
                    before |-> rope, left |-> Len(text)]
        /\ UNCHANGED <<lookup, editor>>
    \/ /\ trip.started
       /\ trip.left > 0
       /\ remove_char
       /\ trip' = [trip EXCEPT !.left = trip.left - 1]
       /\ UNCHANGED <<lookup, editor>>

SpecText == Init /\ [][NextText]_vars

--------------------------------------------------------------------------
(* The editor: main constructs the document, configures the parser, draws  *)
(* once, and then loops: handle every pending event, render, sleep.        *)

\* main builds the document with Default, or with from_reader from a file
InitEditor ==
    \/ default
    \/ \E s \in SeqUpTo(Alphabet, MaxInit) : from_reader(s)

main_configure ==
    /\ pc = "configure"
    /\ configure_parser
    /\ pc' = "first_render"
    /\ UNCHANGED <<lookup, trip, rerender, stale>>

\* a handler that forgets the flag
leave_rerender == UNCHANGED rerender

\* self.rerender = true, the last statement of every key and text handler
set_rerender == rerender' = TRUE

\* Editor::handle_event for an event that reaches the document through the
\* operation `called`: the flag is set once the operation has returned
handled(called) ==
    /\ pc = "events"
    /\ called
    /\ IF result' = "panic"
       THEN pc' = "crashed" /\ UNCHANGED rerender
       ELSE pc' = "events" /\ set_rerender
    /\ stale' = (stale \/ rope' # rope \/ cursor' # cursor)
    /\ UNCHANGED <<lookup, trip>>

key_left == handled(move_cursor_left)

key_right == handled(move_cursor_right)

key_up == handled(move_cursor_up)

key_down == handled(move_cursor_down)

key_backspace == handled(remove_char)

key_return == handled(newline) /\ bounded

text_input ==
    \E text \in Texts : handled(insert_text(text)) /\ bounded

\* Event::Quit: handle_event returns true and main leaves its loop
quit ==
    /\ pc = "events"
    /\ pc' = "quit"
    /\ UNCHANGED <<document, lookup, trip, rerender, stale>>

\* any other event: handle_event returns false and changes nothing
other_event ==
    /\ pc = "events"
    /\ UNCHANGED vars

\* poll_iter has no more events: main goes on to render
events_drained ==
    /\ pc = "events"
    /\ pc' = "render"
    /\ UNCHANGED <<document, lookup, trip, rerender, stale>>

\* Editor::render: nothing without the flag; with it, text and cursor are
\* drawn and the flag is cleared
render ==
    /\ pc \in {"first_render", "render"}
    /\ IF rerender = FALSE
       THEN UNCHANGED <<rerender, stale>>
       ELSE rerender' = FALSE /\ stale' = FALSE
    /\ pc' = "events"
    /\ UNCHANGED <<document, lookup, trip>>

NextEditor ==
    \/ main_configure
    \/ key_left
    \/ key_right
    \/ key_up
    \/ key_down
    \/ key_backspace
    \/ key_return
    \/ text_input
    \/ quit
    \/ other_event
    \/ events_drained
    \/ render

SpecEditor == InitEditor /\ [][NextEditor]_vars

--------------------------------------------------------------------------
(* Properties *)

\* the absolute character index of the cursor, where line_to_char returns
cursor_index == line_to_char(rope, cursor.y) + cursor.x

CountNL(s) == Cardinality({i \in 1..Len(s) : s[i] = NL})

\* the characters of s after its last line terminator
AfterLastNL(s) ==
    LET nls == {i \in 1..Len(s) : s[i] = NL}
    IN  IF nls = {} THEN Len(s)
        ELSE Len(s) - (CHOOSE i \in nls : \A j \in nls : j <= i)

\* s without its character at index k (0-based)
Without(s, k) == [i \in 1..(Len(s) - 1) |-> IF i <= k THEN s[i] ELSE s[i + 1]]

\* C1: no sequence of Document operations on a constructed document panics:
\* every rope call gets an in-range argument.
C1_NoCrash == result # "panic"

\* C2: in every reachable state line_to_char(cursor.y) + cursor.x is defined
\* and at most the length of the text in characters.
C2_IndexConsistency ==
    running => /\ ~line_to_char_panics(rope, cursor.y)
               /\ cursor_index <= len_chars(rope)

\* C3: after every completed operation cursor.y is less than the number of
\* lines and cursor.x is at most the number of characters of line cursor.y.
C3_CursorInvariant ==
    running => /\ cursor.y < len_lines(rope)
               /\ cursor.x <= line_len_chars(rope, cursor.y)

\* C4: insert_text called where line_to_char(cursor.y) + cursor.x exceeds the
\* length of the text is rejected: text, cursor and history stay as they
\* were and the parser oracle is not called.
C4_RejectedInsertUnchanged ==
    [][(/\ op' = "insert_text"
        /\ running
        /\ ~line_to_char_panics(rope, cursor.y)
        /\ cursor_index > len_chars(rope))
       => (/\ result' = "rejected"
           /\ rope' = rope
           /\ cursor' = cursor
           /\ edits' = edits
           /\ pushed' = pushed
           /\ parse_calls' = 0
           /\ tree' = tree)]_vars

\* C4's case: an insert_text has been rejected
C4_Witness == op = "insert_text" /\ result = "rejected"

C6_RemoveBeforeCursor ==
    [][(/\ op' = "remove_char"
        /\ running
        /\ ~line_to_char_panics(rope, cursor.y))
       => (/\ (cursor.x > 0 /\ cursor_index <= len_chars(rope))
                => /\ result' = "done"
                   /\ rope' = Without(rope, cursor_index - 1)
                   /\ cursor' = [x |-> cursor.x - 1, y |-> cursor.y]
           /\ cursor_index = 0
                => /\ result' = "done"
                   /\ rope' = rope
                   /\ cursor' = cursor)]_vars

\* C6's case: remove_char has deleted inside a line (the column it leaves is
\* positive, so the column it found was too)
C6_Witness ==
    /\ op = "remove_char"
    /\ result = "done"
    /\ cursor.x > 0

\* C7: move_cursor_right on a valid line adds one to x while x is less than
\* the length of the line, its terminator not counted, and otherwise leaves
\* the cursor alone.
C7_RightClampsAtLineLength ==
    [][(/\ op' = "move_cursor_right"
        /\ running
        /\ cursor.y < len_lines(rope))
       => cursor' = IF cursor.x < LineLength(rope, cursor.y)
                    THEN [x |-> cursor.x + 1, y |-> cursor.y]
                    ELSE cursor]_vars

\* C8: move_cursor_left at column 0 of a line after the first moves to the
\* end of the line before; at a positive column it moves one left; at (0,0)
\* it does nothing.
C8_LeftFallsBackToLineEnd ==
    [][(/\ op' = "move_cursor_left"
        /\ running
        /\ cursor.y < len_lines(rope))
       => cursor' = IF cursor.x > 0 THEN [x |-> cursor.x - 1, y |-> cursor.y]
                    ELSE IF cursor.y > 0
                         THEN [x |-> LineLength(rope, cursor.y - 1), y |-> cursor.y - 1]
                         ELSE cursor]_vars

\* the absolute value of the change of the text's length over a step
Changed == IF Len(rope') >= Len(rope) THEN Len(rope') - Len(rope)
           ELSE Len(rope) - Len(rope')

\* C9: every insert_char, newline, insert_text and remove_char that changes
\* the text appends one Edit per character inserted or deleted, Insert for
\* an insertion and Delete for a deletion.
C9_EveryMutationRecorded ==
    [][(/\ op' \in {"insert_char", "newline", "insert_text", "remove_char"}
        /\ rope' # rope)
       => /\ Len(pushed') = Len(pushed) + Changed
          /\ \A i \in (Len(pushed) + 1)..Len(pushed') :
                pushed'[i].kind = IF Len(rope') > Len(rope) THEN "Insert" ELSE "Delete"]_vars

\* C10: the history never holds more than its capacity (1024 from from_str,
\* 256 from from_reader and Default), and once more edits than that have
\* been pushed it holds exactly the last `capacity` of them, in push order.
C10_CapacityBound ==
    /\ capacity = IF ctor = "from_str" THEN 1024 ELSE 256
    /\ Len(edits) <= capacity
    /\ Len(pushed) <= capacity => edits = pushed
    /\ Len(pushed) > capacity
         => edits = SubSeq(pushed, Len(pushed) - capacity + 1, Len(pushed))

\* C10's case: more edits than the capacity have been pushed
C10_Witness == Len(pushed) > capacity /\ ctor = "from_str"

\* C11: the text callback returns the empty text for every byte offset at or
\* after the length of the text in bytes, and never fails.
C11_LookupEmptyPastEnd ==
    (lookup.called /\ lookup.u >= len_bytes(rope)) => lookup.out = <<>>

\* C12: insert_text(t) at a valid cursor position followed by one remove_char
\* per character of t leaves the text as it was before the insert.
C12_InsertDeleteRoundTrip ==
    (trip.started /\ trip.valid /\ trip.left = 0)
       => (result = "done" /\ rope = trip.before)

\* C13: remove_char at column 0 of a line after the first leaves the cursor
\* at the join, (former length of line y-1, y-1); and whenever remove_char
\* deletes a character the cursor's index afterwards is one less than before.
C13_RemoveKeepsCursorAttached ==
    [][(/\ op' = "remove_char"
        /\ result' = "done"
        /\ cursor.y < len_lines(rope)
        /\ rope' # rope)
       => (/\ (cursor.x = 0 /\ cursor.y > 0)
                => cursor' = [x |-> LineLength(rope, cursor.y - 1), y |-> cursor.y - 1]
           /\ ~line_to_char_panics(rope', cursor'.y)
           /\ line_to_char(rope', cursor'.y) + cursor'.x = cursor_index - 1)]_vars

\* the text s up to and without its character i (1-based)
Before(s, i) == SubSeq(s, 1, i - 1)

\* the cursor c after the text s, from the terminators of s
CursorPast(c, s) ==
    IF CountNL(s) = 0 THEN [x |-> c.x + Len(s), y |-> c.y]
    ELSE [x |-> AfterLastNL(s), y |-> c.y + CountNL(s)]

\* C16: a non-rejected insert_text(t) of n characters appends n Insert edits
\* to the history, in the order of t, the i-th with the i-th character and
\* the cursor as it was just before that character advanced it.
C16_OneEditPerCharacter ==
    [][(op' = "insert_text" /\ result' = "done")
       => (/\ Len(edits') = Len(edits) + Len(arg')
           /\ SubSeq(edits', 1, Len(edits)) = edits
           /\ \A i \in 1..Len(arg') :
                LET e == edits'[Len(edits) + i] IN
                /\ e.kind = "Insert"
                /\ e.ch = arg'[i]
                /\ e.point = CursorPast(cursor, Before(arg', i)))]_vars

\* C16's case: a text with a terminator before its last character has been
\* inserted away from the origin
C16_Witness ==
    /\ op = "insert_text"
    /\ result = "done"
    /\ Len(arg) >= 2
    /\ arg[1] = NL
    /\ Len(edits) = Len(arg)
    /\ edits[1].point.x > 0

\* C17: the i-th edit (from 0) recorded by insert_text(t) at index k carries
\* char_idx = k + i, the index of its character once the insert is done.
C17_EditIndexPerCharacter ==
    [][(/\ op' = "insert_text"
        /\ result' = "done"
        /\ ~line_to_char_panics(rope, cursor.y))
       => \A i \in 1..Len(arg') :
            /\ Len(edits') >= Len(edits) + i
            /\ edits'[Len(edits) + i].char_idx = cursor_index + (i - 1)]_vars

Edits == {"insert_char", "newline", "insert_text", "remove_char"}

Moves == {"move_cursor_left", "move_cursor_right", "move_cursor_up", "move_cursor_down"}

\* C14: with a parser configured, every completed insert_char, newline,
\* insert_text and remove_char calls the oracle exactly once, over the rope
\* as mutated, with the retained tree as previous tree, and retains the tree
\* the oracle returns; configure_parser does the same, and its first parse
\* has no previous tree.
C14_ReparseWithPreviousTree ==
    [][/\ (op' \in Edits /\ result' = "done" /\ parser)
            => /\ parse_calls' = 1
               /\ old_tree' = tree
               /\ oracle'.rope = rope'
               /\ oracle'.result.some
               /\ tree' = oracle'.result
       /\ op' = "configure_parser"
            => /\ parse_calls' = 1
               /\ old_tree' = tree
               /\ ~parser => ~old_tree'.some
               /\ oracle'.rope = rope'
               /\ oracle'.result.some
               /\ tree' = oracle'.result]_vars

\* C14's case: an edit that changed the text has reparsed with the tree
\* retained before it, and the oracle has returned another tree
C14_Witness ==
    /\ op = "remove_char"
    /\ parser
    /\ parse_calls = 1
    /\ old_tree.some
    /\ oracle.rope = rope
    /\ tree = oracle.result
    /\ tree # old_tree

\* C15: a document starts without parser and tree; configure_parser sets the
\* parser; the parser is never unset; and without a parser every edit leaves
\* the tree absent and completes without error.
C15_ParserOneWay ==
    /\ (~parser /\ ~tree.some)
    /\ [][/\ parser => parser'
          /\ op' = "configure_parser" => parser'
          /\ (~parser /\ op' \in Edits)
                => (~parser' /\ ~tree'.some /\ parse_calls' = 0 /\ result' # "panic")]_vars

\* the part of C15 that is about the parser and the tree alone
ParserStateOneWay ==
    /\ (~parser /\ ~tree.some)
    /\ [][/\ parser => parser'
          /\ op' = "configure_parser" => parser'
          /\ (~parser /\ op' \in Edits)
                => (~parser' /\ ~tree'.some /\ parse_calls' = 0)]_vars

\* C18: move_cursor_up at row 0 leaves the cursor alone and at a row y > 0
\* sets it to (0, y-1); it never fails, and no operation leaves cursor.y at
\* the value an underflow wraps to.
C18_UpGuardedAtRowZero ==
    [][/\ op' = "move_cursor_up"
            => /\ result' = "done"
               /\ cursor' = IF cursor.y = 0 THEN cursor
                            ELSE [x |-> 0, y |-> cursor.y - 1]
       /\ cursor'.y # usize_MAX]_vars

\* C18's case: move_cursor_up has been called at row 0 (only then can it
\* leave a positive column)
C18_Witness ==
    /\ op = "move_cursor_up"
    /\ cursor.y = 0
    /\ cursor.x > 0

\* C20: the four cursor movements change nothing but the cursor: text,
\* history, parser and tree stay and the oracle is not called.
C20_MovementFrame ==
    [][op' \in Moves
       => /\ rope' = rope
          /\ edits' = edits
          /\ pushed' = pushed
          /\ capacity' = capacity
          /\ parser' = parser
          /\ highlighter' = highlighter
          /\ tree' = tree
          /\ parse_calls' = 0]_vars

\* C20's case: a movement has moved the cursor of a parsed document
C20_Witness ==
    /\ op = "move_cursor_left"
    /\ parser
    /\ tree.some
    /\ cursor.x > 0

Rendering == pc \in {"first_render", "render"}

\* C19: whenever text or cursor changed since the last completed redraw the
\* flag is set when render is called; every handled key or text event sets
\* it and only a redraw clears it; a redraw shows the current state; and
\* render with the flag unset changes nothing.
C19_EveryChangeRendered ==
    [][/\ (Rendering' /\ stale') => rerender'
       /\ (pc = "events" /\ pc' = "events" /\ op' # op) => rerender'
       /\ (pc = "events" /\ (rope' # rope \/ cursor' # cursor) /\ result' # "panic")
            => rerender'
       /\ (rerender /\ ~rerender') => (Rendering /\ ~stale')
       /\ (Rendering /\ rerender) => (~stale' /\ ~rerender')
       /\ (Rendering /\ ~rerender)
            => UNCHANGED <<document, lookup, trip, rerender, stale>>]_vars

\* C19's case: render is called after events that changed the text since
\* the last redraw
C19_Witness ==
    /\ pc = "render"
    /\ stale
    /\ rerender
    /\ op = "remove_char"
    /\ tree.some

====
